---- MODULE Spec2Model ----
(***************************************************************************)
(* Model of the single view of fifufa-ui (src/fifufa-ui/src/App.jsx): the  *)
(* component state, the user event handlers and the continuations of the   *)
(* three HTTP requests.  JavaScript strings are TLA+ strings; the emoji    *)
(* that open the hard-coded messages are written as their code points      *)
(* (U+1F64F ...) because a TLA+ string cannot hold them.                   *)
(***************************************************************************)
EXTENDS Integers, Sequences, FiniteSets, Bags, TLC

VARIABLES topic, facts, loading, loadingMore, loadingRandomWord, error, requests,
          submitted

\* submitted is a history variable, no state of the view: the topic of the
\* submit-topic request issued last ("" before the first).  Only TopicSpec
\* records it; the other specifications leave it as it is.
vars == <<topic, facts, loading, loadingMore, loadingRandomWord, error, requests,
          submitted>>

(***************************************************************************)
(* Program constants.                                                      *)
(***************************************************************************)
MinTopicLen == 2
MaxTopicLen == 50
InputMaxLength == 50
MoreLimit == 5

(***************************************************************************)
(* Bound of the exploration: submit-topic requests in flight at once.      *)
(***************************************************************************)
MaxSubmits == 2

ErrRequired == "Please enter a topic first!"
ErrTooShort == "Topic too short! Please enter at least 2 characters."
ErrTooLong == "Topic too long! Please keep it under 50 characters."
ErrRandom == "Failed to get random topic. Please try again."

RateLimitFacts == <<"U+23F0 Too many requests! Please wait a moment and try again.">>
ServerIssueFacts == <<"U+1F527 Server issue detected. Try a different topic or wait a few minutes.">>
GenericFacts ==
    << "U+1F64F Sorry, we couldn't fetch fun facts right now.",
       "U+1F4E1 Possible reason: connectivity issue or API credit limit reached.",
       "U+1F4A1 Please try again in a few minutes!" >>
MoreFailedFact == "U+1F64F Sorry, couldn't fetch more facts."

DefaultFactsError == "Failed to fetch facts"

(***************************************************************************)
(* JavaScript string built-ins used by the handlers.                       *)
(***************************************************************************)
\* White space that TLA+ has no escape for, written as the character itself:
\* U+000B line tabulation, U+00A0 no-break space, U+1680 ogham space mark
\* and U+FEFF zero width no-break space.
LineTabulation == ""
NoBreakSpace == " "
OghamSpaceMark == " "
ZeroWidthNoBreakSpace == "﻿"

\* The WhiteSpace and LineTerminator code points of ECMAScript, which are
\* what \s matches and what String.prototype.trim strips.  The remaining
\* ones (U+2000 to U+200A, U+2028, U+2029, U+202F, U+205F, U+3000) cannot be
\* written in a TLA+ string, so no string of the model holds them.
IsSpace(c) ==
    c \in {" ", "\n", "\t", "\r", "\f",
           LineTabulation, NoBreakSpace, OghamSpaceMark, ZeroWidthNoBreakSpace}

IsDigit(c) == c \in {"0", "1", "2", "3", "4", "5", "6", "7", "8", "9"}

CharAt(s, i) == SubSeq(s, i, i)

\* String.prototype.trimStart and trimEnd.
RECURSIVE trimStart(_)
trimStart(s) ==
    IF Len(s) > 0 /\ IsSpace(CharAt(s, 1)) THEN trimStart(SubSeq(s, 2, Len(s))) ELSE s

RECURSIVE trimEnd(_)
trimEnd(s) ==
    IF Len(s) > 0 /\ IsSpace(CharAt(s, Len(s))) THEN trimEnd(SubSeq(s, 1, Len(s) - 1)) ELSE s

\* String.prototype.trim: strip the leading and the trailing white space.
trim(s) == trimEnd(trimStart(s))

\* String.prototype.includes
includes(s, sub) ==
    \E i \in 0..(Len(s) - Len(sub)) : SubSeq(s, i + 1, i + Len(sub)) = sub

\* Number of digits of the maximal digit run of s that starts at position q.
RECURSIVE DigitRun(_, _)
DigitRun(s, q) ==
    IF q <= Len(s) /\ IsDigit(CharAt(s, q)) THEN 1 + DigitRun(s, q + 1) ELSE 0

\* Length of the match of /\d+\.\s/ anchored at position q of s, 0 if none.
MatchAt(s, q) ==
    LET d == DigitRun(s, q)
    IN  IF /\ d >= 1
           /\ q + d + 1 <= Len(s)
           /\ CharAt(s, q + d) = "."
           /\ IsSpace(CharAt(s, q + d + 1))
        THEN d + 2
        ELSE 0

\* String.prototype.split(/\d+\.\s/): p is where the current piece starts,
\* q the position the pattern is tried at (both 1-based).
RECURSIVE SplitFrom(_, _, _)
SplitFrom(s, p, q) ==
    IF q > Len(s) THEN <<SubSeq(s, p, Len(s))>>
    ELSE LET m == MatchAt(s, q)
         IN  IF m = 0 THEN SplitFrom(s, p, q + 1)
             ELSE <<SubSeq(s, p, q - 1)>> \o SplitFrom(s, q + m, q + m)

split(s) == SplitFrom(s, 1, 1)

\* .map((s) => s.trim())
mapTrim(pieces) == [i \in DOMAIN pieces |-> trim(pieces[i])]

NonEmpty(s) == Len(s) > 0

\* .filter((s) => s.length > 0)
filterNonEmpty(pieces) == SelectSeq(pieces, NonEmpty)


(***************************************************************************)
(* Inputs.  What the user can type into the input (its maxLength caps the  *)
(* value), and what the external service can reply.                        *)
(***************************************************************************)
RECURSIVE Rep(_, _)
Rep(c, n) == IF n = 0 THEN "" ELSE c \o Rep(c, n - 1)

TypedValues ==
    {v \in {" ", "a", " ab ", Rep("x", InputMaxLength + 1)} :
        Len(v) <= InputMaxLength}

\* data.word of GET /api/random-words: any string the service chooses.
Words == {"\r" \o Rep("y", MaxTopicLen) \o "\f", Rep("z", MaxTopicLen + 1)}

Keys == {"Enter", "Escape"}

\* A reply to a request.  thrown: fetch() or response.json() rejected, with
\* that message; otherwise ok is response.ok and error, facts (ftype, farr,
\* fstr) and word are the fields of the parsed body ("" for a missing error).
Reply(thrown, message, ok, err, ftype, farr, fstr, word) ==
    [thrown |-> thrown, message |-> message, ok |-> ok, error |-> err,
     ftype |-> ftype, farr |-> farr, fstr |-> fstr, word |-> word]

OkArray(a) == Reply(FALSE, "", TRUE, "", "array", a, "", "")
OkString(s) == Reply(FALSE, "", TRUE, "", "string", <<>>, s, "")
OkOther == Reply(FALSE, "", TRUE, "", "other", <<>>, "", "")
NotOk(err) == Reply(FALSE, "", FALSE, err, "other", <<>>, "", "")
Thrown(message) == Reply(TRUE, message, FALSE, "", "other", <<>>, "", "")
OkWord(w) == Reply(FALSE, "", TRUE, "", "other", <<>>, "", w)

FailureReplies ==
    { Thrown("Failed to fetch"),
      Thrown("Bad JSON at 1500"),
      NotOk(""),
      NotOk("429"),
      NotOk("Too many requests"),
      NotOk("500 after 429"),
      NotOk("Something went wrong"),
      NotOk("too many 42 9") }

FactsReplies ==
    { OkArray(<<"a", "b", "c", "d", "e">>), OkString("1. a 2. b 3. c 4. d 5. e"), OkOther }
        \cup FailureReplies

\* One reply for each way a request settles: with facts, without, rejected, not OK.
PathReplies ==
    { OkArray(<<"a", "b", "c", "d", "e">>), OkOther, Thrown("Failed to fetch"), NotOk("429") }

WordReplies == {OkWord(w) : w \in Words} \cup {Thrown("Failed to fetch"), NotOk("")}

(***************************************************************************)
(* The requests in flight: a bag, since two equal requests may be pending. *)
(***************************************************************************)
FactsUrl == "http://localhost:5000/api/facts"
RandomWordsUrl == "http://localhost:5000/api/random-words"

\* A request: its URL and, for a POST, the topic and the more of its body
\* (more is FALSE where the body has no such field).
Request(url, t, more) == [url |-> url, topic |-> t, more |-> more]

\* The request type: submit-topic, load-more or random-topic.
Kind(r) ==
    IF r.url = RandomWordsUrl THEN "random"
    ELSE IF r.more THEN "more"
    ELSE "submit"

Pending(kind) == {r \in BagToSet(requests) : Kind(r) = kind}

InFlight(kind) ==
    BagCardinality([r \in Pending(kind) |-> CopiesIn(r, requests)])

Send(r) == requests' = requests (+) SetToBag({r})

Settle(r) == requests' = requests (-) SetToBag({r})

\* The requests a step issues, and the requests it settles.
Issued == {r \in BagToSet(requests') : CopiesIn(r, requests') > CopiesIn(r, requests)}

Settled == {r \in BagToSet(requests) : CopiesIn(r, requests') < CopiesIn(r, requests)}

Init ==
    /\ topic = ""
    /\ facts = <<>>
    /\ loading = FALSE
    /\ loadingMore = FALSE
    /\ loadingRandomWord = FALSE
    /\ error = ""
    /\ requests = EmptyBag
    /\ submitted = ""

(***************************************************************************)
(* fetchFacts, up to its await.                                            *)
(***************************************************************************)
\* TopicError with the upper bound off by one.
TopicErrorOffByOne(sanitizedTopic) ==
    IF sanitizedTopic = "" THEN ErrRequired
    ELSE IF Len(sanitizedTopic) < MinTopicLen THEN ErrTooShort
    ELSE IF Len(sanitizedTopic) > MaxTopicLen + 1 THEN ErrTooLong
    ELSE ""

TopicError(sanitizedTopic) ==
    IF sanitizedTopic = "" THEN ErrRequired
    ELSE IF Len(sanitizedTopic) < MinTopicLen THEN ErrTooShort
    ELSE IF Len(sanitizedTopic) > MaxTopicLen THEN ErrTooLong
    ELSE ""

\* fetchFacts clearing the facts before it validates the topic.
fetchFactsClearsFirst ==
    LET sanitizedTopic == trim(topic)
    IN  IF TopicError(sanitizedTopic) # ""
        THEN /\ error' = TopicError(sanitizedTopic)
             /\ facts' = <<>>
             /\ UNCHANGED <<topic, loading, loadingMore, loadingRandomWord, requests>>
        ELSE /\ InFlight("submit") < MaxSubmits
             /\ error' = ""
             /\ loading' = TRUE
             /\ facts' = <<>>
             /\ Send(Request(FactsUrl, sanitizedTopic, FALSE))
             /\ UNCHANGED <<topic, loadingMore, loadingRandomWord>>

fetchFacts ==
    LET sanitizedTopic == trim(topic)
    IN  IF TopicError(sanitizedTopic) # ""
        THEN /\ error' = TopicError(sanitizedTopic)
             /\ UNCHANGED <<topic, facts, loading, loadingMore, loadingRandomWord, requests>>
        ELSE /\ InFlight("submit") < MaxSubmits
             /\ error' = ""
             /\ loading' = TRUE
             /\ facts' = <<>>
             /\ Send(Request(FactsUrl, sanitizedTopic, FALSE))
             /\ UNCHANGED <<topic, loadingMore, loadingRandomWord>>

\* The message of the error the try block throws on this reply.
ThrownMessage(reply, fallback) ==
    IF reply.thrown THEN reply.message
    ELSE IF reply.error # "" THEN reply.error
    ELSE fallback

Fails(reply) == reply.thrown \/ ~reply.ok

\* Lines 55-62.
cleanFactsSubmit(reply) ==
    IF reply.ftype = "array" THEN reply.farr
    ELSE IF reply.ftype = "string" THEN filterNonEmpty(mapTrim(split(reply.fstr)))
    ELSE <<>>

\* catchFacts testing for the server issue before the rate limit.
catchFactsServerFirst(message) ==
    IF includes(message, "500") \/ includes(message, "Something went wrong")
    THEN ServerIssueFacts
    ELSE IF includes(message, "429") \/ includes(message, "Too many requests")
    THEN RateLimitFacts
    ELSE GenericFacts

\* Lines 66-76.
catchFacts(message) ==
    IF includes(message, "429") \/ includes(message, "Too many requests")
    THEN RateLimitFacts
    ELSE IF includes(message, "500") \/ includes(message, "Something went wrong")
    THEN ServerIssueFacts
    ELSE GenericFacts

\* fetchFacts clearing loading at the end of its try block, not in a finally.
fetchFactsSettledNoFinally(r, reply) ==
    /\ r \in Pending("submit")
    /\ Settle(r)
    /\ facts' = IF Fails(reply)
                THEN catchFacts(ThrownMessage(reply, DefaultFactsError))
                ELSE cleanFactsSubmit(reply)
    /\ loading' = IF Fails(reply) THEN loading ELSE FALSE
    /\ UNCHANGED <<topic, loadingMore, loadingRandomWord, error>>

\* fetchFacts, from its await to its end.
fetchFactsSettled(r, reply) ==
    /\ r \in Pending("submit")
    /\ Settle(r)
    /\ facts' = IF Fails(reply)
                THEN catchFacts(ThrownMessage(reply, DefaultFactsError))
                ELSE cleanFactsSubmit(reply)
    /\ loading' = FALSE
    /\ UNCHANGED <<topic, loadingMore, loadingRandomWord, error>>

(***************************************************************************)
(* fetchMoreFacts: the setFacts of its continuation appends to the facts   *)
(* of the moment (prev), not to those of the click.                        *)
(***************************************************************************)
\* fetchMoreFacts sending the trimmed topic.
fetchMoreFactsTrimmed ==
    IF topic = ""
    THEN UNCHANGED vars
    ELSE /\ loadingMore' = TRUE
         /\ Send(Request(FactsUrl, trim(topic), TRUE))
         /\ UNCHANGED <<topic, facts, loading, loadingRandomWord, error>>

\* fetchMoreFacts, up to its await.
fetchMoreFacts ==
    IF topic = ""
    THEN UNCHANGED vars
    ELSE /\ loadingMore' = TRUE
         /\ Send(Request(FactsUrl, topic, TRUE))
         /\ UNCHANGED <<topic, facts, loading, loadingRandomWord, error>>

\* cleanFacts of fetchMoreFacts without the trim of its pieces.
cleanFactsMoreNoTrim(reply) ==
    IF reply.ftype = "array" THEN reply.farr
    ELSE IF reply.ftype = "string" THEN filterNonEmpty(split(reply.fstr))
    ELSE <<>>

\* Lines 98-105.
cleanFactsMore(reply) ==
    IF reply.ftype = "array" THEN reply.farr
    ELSE IF reply.ftype = "string" THEN filterNonEmpty(mapTrim(split(reply.fstr)))
    ELSE <<>>

\* fetchMoreFacts replacing the facts by its apology when the request fails.
fetchMoreFactsSettledReplaces(r, reply) ==
    /\ r \in Pending("more")
    /\ Settle(r)
    /\ facts' = IF Fails(reply)
                THEN <<MoreFailedFact>>
                ELSE facts \o cleanFactsMore(reply)
    /\ loadingMore' = FALSE
    /\ UNCHANGED <<topic, loading, loadingRandomWord, error>>

\* fetchMoreFacts, from its await to its end.
fetchMoreFactsSettled(r, reply) ==
    /\ r \in Pending("more")
    /\ Settle(r)
    /\ facts' = IF Fails(reply)
                THEN facts \o <<MoreFailedFact>>
                ELSE facts \o cleanFactsMore(reply)
    /\ loadingMore' = FALSE
    /\ UNCHANGED <<topic, loading, loadingRandomWord, error>>

(***************************************************************************)
(* getRandomWord.                                                          *)
(***************************************************************************)
getRandomWord ==
    /\ loadingRandomWord' = TRUE
    /\ Send(Request(RandomWordsUrl, "", FALSE))
    /\ UNCHANGED <<topic, facts, loading, loadingMore, error>>

getRandomWordSettled(r, reply) ==
    /\ r \in Pending("random")
    /\ Settle(r)
    /\ IF Fails(reply)
       THEN /\ error' = ErrRandom
            /\ UNCHANGED topic
       ELSE /\ topic' = reply.word
            /\ error' = ""
    /\ loadingRandomWord' = FALSE
    /\ UNCHANGED <<facts, loading, loadingMore>>

(***************************************************************************)
(* User events on the rendered view.                                       *)
(***************************************************************************)
handleKeyPress(key) ==
    IF key = "Enter" THEN fetchFacts
    ELSE IF key = "Escape"
    THEN /\ topic' = ""
         /\ error' = ""
         /\ UNCHANGED <<facts, loading, loadingMore, loadingRandomWord, requests>>
    ELSE UNCHANGED vars

onChange(value) ==
    /\ topic' = value
    /\ UNCHANGED <<facts, loading, loadingMore, loadingRandomWord, error, requests>>

SubmitDisabled == loading \/ trim(topic) = ""

MoreShown == Len(facts) <= MoreLimit /\ Len(facts) > 0

ClickSubmit == ~SubmitDisabled /\ fetchFacts

ClickMore == MoreShown /\ ~loadingMore /\ fetchMoreFacts

ClickRandom == ~loadingRandomWord /\ getRandomWord

\* A pending request of each type settles, with any reply of the service.
SubmitSettles ==
    \E r \in Pending("submit"), reply \in FactsReplies : fetchFactsSettled(r, reply)

MoreSettles ==
    \E r \in Pending("more"), reply \in FactsReplies : fetchMoreFactsSettled(r, reply)

RandomSettles ==
    \E r \in Pending("random"), reply \in WordReplies : getRandomWordSettled(r, reply)

Next ==
    \/ (\E value \in TypedValues : onChange(value)) /\ UNCHANGED submitted
    \/ (\E key \in Keys : handleKeyPress(key)) /\ UNCHANGED submitted
    \/ ClickSubmit /\ UNCHANGED submitted
    \/ ClickMore /\ UNCHANGED submitted
    \/ ClickRandom /\ UNCHANGED submitted
    \/ SubmitSettles /\ UNCHANGED submitted
    \/ MoreSettles /\ UNCHANGED submitted
    \/ RandomSettles /\ UNCHANGED submitted

Spec == Init /\ [][Next]_vars

\* The same view where every issued request eventually settles, on one of
\* the paths of PathReplies.
LiveSubmitSettles ==
    \E r \in Pending("submit"), reply \in PathReplies : fetchFactsSettled(r, reply)

LiveMoreSettles ==
    \E r \in Pending("more"), reply \in PathReplies : fetchMoreFactsSettled(r, reply)

LiveNext ==
    \/ (\E value \in TypedValues : onChange(value)) /\ UNCHANGED submitted
    \/ (\E key \in Keys : handleKeyPress(key)) /\ UNCHANGED submitted
    \/ ClickSubmit /\ UNCHANGED submitted
    \/ ClickMore /\ UNCHANGED submitted
    \/ ClickRandom /\ UNCHANGED submitted
    \/ LiveSubmitSettles /\ UNCHANGED submitted
    \/ LiveMoreSettles /\ UNCHANGED submitted
    \/ RandomSettles /\ UNCHANGED submitted

LiveSpec ==
    /\ Init
    /\ [][LiveNext]_vars
    /\ WF_vars(LiveSubmitSettles /\ UNCHANGED submitted)
    /\ WF_vars(LiveMoreSettles /\ UNCHANGED submitted)
    /\ WF_vars(RandomSettles /\ UNCHANGED submitted)

(***************************************************************************)
(* The reshaping of a successful POST /api/facts reply, over a wider set   *)
(* of replies: one valid topic, submits and load-mores.                    *)
(***************************************************************************)
ReshapeReplies ==
    { OkArray(<<>>), OkArray(<<"a", "b">>), OkArray(<<" a ", "", "1. x">>),
      OkString(""), OkString("  "), OkString("no markers"),
      OkString("1. a 2. b"), OkString("1. a\r\n2. b\r\n"),
      OkString("x 1.  a 2. 3. b "), OkString("3.14. x"), OkString("1.a 2.b"),
      OkString("12.\fa 345.\tb\r"), OkString("v2. 0"),
      OkOther, NotOk("") }

ReshapeSubmitSettles ==
    \E r \in Pending("submit"), reply \in ReshapeReplies : fetchFactsSettled(r, reply)

ReshapeMoreSettles ==
    \E r \in Pending("more"), reply \in ReshapeReplies : fetchMoreFactsSettled(r, reply)

ReshapeNext ==
    \/ onChange("ab") /\ UNCHANGED submitted
    \/ ClickSubmit /\ UNCHANGED submitted
    \/ ClickMore /\ UNCHANGED submitted
    \/ ReshapeSubmitSettles /\ UNCHANGED submitted
    \/ ReshapeMoreSettles /\ UNCHANGED submitted

ReshapeSpec == Init /\ [][ReshapeNext]_vars

(***************************************************************************)
(* The topics of the facts shown: the user types one of two topics and     *)
(* clicks the submit and the more button, and the service replies to each  *)
(* request with two facts that name the topic of that request.             *)
(***************************************************************************)
TopicTyped == {"ab", " cd "}

AboutReply(r) == OkArray(<<"1 about " \o r.topic, "2 about " \o r.topic>>)

\* The topic a fact of AboutReply names, without the white space around it.
FactTopic(fact) == trim(SubSeq(fact, Len("1 about ") + 1, Len(fact)))

TopicSubmitSettles ==
    \E r \in Pending("submit") : fetchFactsSettled(r, AboutReply(r))

TopicMoreSettles ==
    \E r \in Pending("more") : fetchMoreFactsSettled(r, AboutReply(r))

\* submitted follows the submit-topic request the step issues, if any.
RecordSubmitted ==
    submitted' = IF \E r \in Issued : Kind(r) = "submit"
                 THEN (CHOOSE r \in Issued : Kind(r) = "submit").topic
                 ELSE submitted

TopicNext ==
    \/ (\E value \in TopicTyped : onChange(value)) /\ RecordSubmitted
    \/ ClickSubmit /\ RecordSubmitted
    \/ ClickMore /\ RecordSubmitted
    \/ TopicSubmitSettles /\ RecordSubmitted
    \/ TopicMoreSettles /\ RecordSubmitted

TopicSpec == Init /\ [][TopicNext]_vars

(***************************************************************************)
(* Properties.                                                             *)
(***************************************************************************)
IsPrefix(a, b) == Len(a) <= Len(b) /\ SubSeq(b, 1, Len(a)) = a

\* C1: a submit-topic request (POST /api/facts without more) is issued only
\* when the trimmed topic has between 2 and 50 characters, and the topic of
\* its body is that trimmed topic.
C1_SubmitOnlyValidTrimmedTopic ==
    [][\A r \in Issued :
          Kind(r) = "submit" =>
              /\ r.url = FactsUrl
              /\ r.topic = trim(topic)
              /\ Len(trim(topic)) >= 2
              /\ Len(trim(topic)) <= 50]_vars

\* C1 witness: a submit request is in flight whose topic, 50 characters long,
\* is the topic of the input without the carriage return before it and the
\* form feed after it.
C1_Witness ==
    \E r \in Pending("submit") :
        Len(r.topic) = 50 /\ topic = "\r" \o r.topic \o "\f"

\* A step in which fetchFacts runs: a click on the submit button, or Enter.
RunsFetchFacts == ClickSubmit \/ handleKeyPress("Enter")

\* C2: when fetchFacts runs with an empty or all-space topic, with a trimmed
\* topic of one character or with one of more than 50, error becomes the
\* matching message, no request is issued and facts, topic and the loading
\* flags are unchanged.
C2_InvalidTopicSetsErrorOnly ==
    [][RunsFetchFacts =>
          LET n == Len(trim(topic))
          IN  /\ n = 0 => error' = "Please enter a topic first!"
              /\ n = 1 => error' = "Topic too short! Please enter at least 2 characters."
              /\ n > 50 => error' = "Topic too long! Please keep it under 50 characters."
              /\ (n < 2 \/ n > 50) =>
                    /\ requests' = requests
                    /\ UNCHANGED <<facts, topic, loading, loadingMore, loadingRandomWord>>]_vars

\* C2 witness: the too-long error is shown for a topic of more than 50
\* characters while facts are shown and a load-more request is in flight.
C2_Witness ==
    /\ error = "Topic too long! Please keep it under 50 characters."
    /\ Len(trim(topic)) > 50
    /\ facts # <<>>
    /\ loadingMore

\* C3: in every reachable state the topic has at most 50 characters.
C3_TopicAtMost50 == Len(topic) <= 50

\* C4 as claimed: every transition keeps the facts it started with as a
\* prefix of the facts it ends with.
C4_FactsAppendOnly == [][IsPrefix(facts, facts')]_vars

\* C4 as amended: every transition that neither issues nor settles a
\* submit-topic request keeps the facts it started with as a prefix of the
\* facts it ends with.
C4_FactsAppendOnlyOutsideSubmit ==
    [][(\A r \in Issued \cup Settled : Kind(r) # "submit") => IsPrefix(facts, facts')]_vars

\* C4 witness: load-more has appended its apology to the five facts of a
\* submit.
C4_Witness ==
    facts = <<"a", "b", "c", "d", "e", "U+1F64F Sorry, couldn't fetch more facts.">>

\* C5: of each request type at most one request is in flight.
C5_OneInFlightPerType ==
    \A kind \in {"submit", "more", "random"} : InFlight(kind) <= 1

\* The error message a failed request is handled with.
C6_Message(reply) == ThrownMessage(reply, "Failed to fetch facts")

C6_Expected(m) ==
    IF includes(m, "429") \/ includes(m, "Too many requests")
    THEN <<"U+23F0 Too many requests! Please wait a moment and try again.">>
    ELSE IF includes(m, "500") \/ includes(m, "Something went wrong")
    THEN <<"U+1F527 Server issue detected. Try a different topic or wait a few minutes.">>
    ELSE << "U+1F64F Sorry, we couldn't fetch fun facts right now.",
            "U+1F4E1 Possible reason: connectivity issue or API credit limit reached.",
            "U+1F4A1 Please try again in a few minutes!" >>

\* C6: a failed submit-topic request sets facts to the rate-limit message if
\* its error message contains "429" or "Too many requests", else to the
\* server-issue message if it contains "500" or "Something went wrong", else
\* to the three-element apology; it leaves the error field as it is and
\* issues no request.
C6_FailedSubmitMapsMessage ==
    [][\A r \in Pending("submit") :
          Settle(r) =>
              \A reply \in FailureReplies :
                  fetchFactsSettled(r, reply) =>
                      /\ facts' = C6_Expected(C6_Message(reply))
                      /\ Len(facts') \in {1, 3}
                      /\ error' = error
                      /\ Issued = {}]_vars

\* C6 witness: a failed submit has left the rate-limit message as the only
\* fact, with an empty error field and nothing in flight.
C6_Witness ==
    /\ facts = <<"U+23F0 Too many requests! Please wait a moment and try again.">>
    /\ error = ""
    /\ ~loading
    /\ requests = EmptyBag

\* The numbered-list markers of s: s[a..b] is one or more digits, a dot and
\* one white-space character.
C7_IsMarker(s, a, b) ==
    /\ b - a >= 2
    /\ \A i \in a..(b - 2) : IsDigit(CharAt(s, i))
    /\ CharAt(s, b - 1) = "."
    /\ IsSpace(CharAt(s, b))

C7_InMarker(s, i) == \E a \in 1..i, b \in i..Len(s) : C7_IsMarker(s, a, b)

\* The pieces of s between its markers, in order: each starts at a position
\* outside every marker whose predecessor is inside one (or is none), and
\* runs to the last position before the next marker.
C7_Starts(s) ==
    {i \in 1..Len(s) : ~C7_InMarker(s, i) /\ (i = 1 \/ C7_InMarker(s, i - 1))}

C7_Piece(s, i) ==
    LET ends == {j \in i..Len(s) : \A k \in i..j : ~C7_InMarker(s, k)}
    IN  SubSeq(s, i, CHOOSE j \in ends : \A k \in ends : k <= j)

RECURSIVE C7_PiecesOf(_, _)
C7_PiecesOf(s, starts) ==
    IF starts = {} THEN <<>>
    ELSE LET i == CHOOSE x \in starts : \A y \in starts : x <= y
             piece == trim(C7_Piece(s, i))
         IN  (IF piece = "" THEN <<>> ELSE <<piece>>) \o C7_PiecesOf(s, starts \ {i})

C7_Reshape(reply) ==
    IF reply.ftype = "array" THEN reply.farr
    ELSE IF reply.ftype = "string" THEN C7_PiecesOf(reply.fstr, C7_Starts(reply.fstr))
    ELSE <<>>

\* The reshaped reply, tabulated over the replies of the service.
C7_Reshaped == [reply \in ReshapeReplies \cup FactsReplies |-> C7_Reshape(reply)]

\* C7: a successful submit replaces facts by the reshaped reply and a
\* successful load-more appends the reshaped reply to facts, where an array
\* is kept as it is, a string is split at every marker into trimmed,
\* non-empty pieces in order, and anything else gives no fact.
C7_ReshapeOfReply ==
    [][\A r \in BagToSet(requests) :
          Settle(r) =>
              \A reply \in ReshapeReplies :
                  ~Fails(reply) =>
                      /\ fetchFactsSettled(r, reply) => facts' = C7_Reshaped[reply]
                      /\ fetchMoreFactsSettled(r, reply) =>
                            facts' = facts \o C7_Reshaped[reply]]_vars

\* C7 witness: a submit has split a string reply into three facts and a
\* load-more has appended the three elements of an array reply unchanged.
C7_Witness ==
    facts = <<"x", "a", "b", " a ", "", "1. x">>

\* C8: a settling load-more request appends to the facts shown at that
\* moment the reshaped reply, or its one apology if it failed, and leaves
\* topic and error as they are; a load-more request is issued only with a
\* non-empty topic and carries that topic, untrimmed, with more = true.
C8_LoadMoreAppends ==
    [][requests' # requests =>
          /\ \A r \in Pending("more") :
                Settle(r) =>
                    \A reply \in FactsReplies :
                        fetchMoreFactsSettled(r, reply) =>
                            /\ facts' = facts \o
                                    (IF Fails(reply)
                                     THEN <<"U+1F64F Sorry, couldn't fetch more facts.">>
                                     ELSE C7_Reshaped[reply])
                            /\ IsPrefix(facts, facts')
                            /\ topic' = topic
                            /\ error' = error
          /\ \A r \in Issued :
                Kind(r) = "more" =>
                    /\ topic # ""
                    /\ r = Request(FactsUrl, topic, TRUE)]_vars

\* C8 witness: a load-more request for the untrimmed topic " ab " has
\* failed after a failed submit, and its apology follows the submit's.
C8_Witness ==
    /\ Len(facts) = 2
    /\ facts[1] = "U+1F527 Server issue detected. Try a different topic or wait a few minutes."
    /\ facts[2] = "U+1F64F Sorry, couldn't fetch more facts."
    /\ topic = " ab "
    /\ ~loadingMore

\* C9: whenever a loading flag is true it is eventually false again.
C9_FlagsEventuallyCleared ==
    /\ loading ~> ~loading
    /\ loadingMore ~> ~loadingMore
    /\ loadingRandomWord ~> ~loadingRandomWord

\* C9 witness: all three flags are clear again after a submit failed, a
\* load-more failed and a random-topic request failed.
C9_Witness ==
    /\ ~loading /\ ~loadingMore /\ ~loadingRandomWord
    /\ requests = EmptyBag
    /\ Len(facts) = 4
    /\ facts[4] = "U+1F64F Sorry, couldn't fetch more facts."
    /\ error = "Failed to get random topic. Please try again."

\* C10: each loading flag is true exactly when a request of its type is in
\* flight.
C10_FlagIffInFlight ==
    /\ loading <=> InFlight("submit") >= 1
    /\ loadingMore <=> InFlight("more") >= 1
    /\ loadingRandomWord <=> InFlight("random") >= 1

\* C11: once every request has settled, every fact shown was produced by a
\* request for the topic submitted last.
C11_FactsOfLatestSubmit ==
    requests = EmptyBag =>
        \A i \in 1..Len(facts) : FactTopic(facts[i]) = submitted

====
